---------------------------- MODULE Spec2Model ----------------------------
(***************************************************************************)
(* A model of sopel_climacell/plugin.py: the weather and setlocation       *)
(* commands, the geocoding helper, and the response formatter with its     *)
(* lookup tables.                                                          *)
(*                                                                         *)
(* Text is a sequence of characters, one short string per character, so    *)
(* that lengths, splitting on " | " and substitution are computed and not  *)
(* assumed.  A glyph outside ASCII is one character written as a name in   *)
(* angle brackets; the control characters of IRC formatting are the        *)
(* characters CONTROL_BOLD and CONTROL_COLOR.                              *)
(*                                                                         *)
(* Numbers of the weather API are kept in tenths (72.4 is 724), bearings   *)
(* in tenths of a degree.  Python's None is the value None.                *)
(***************************************************************************)
EXTENDS Integers, Sequences, FiniteSets, TLC

VARIABLES
    cfg,    \* bot.config.climacell: which API keys are set
    db,     \* bot.db nick values: nick -> [latitude, longitude, location]
    http,   \* the HTTP requests issued by the running / last command
    said,   \* the messages sent (bot.say / bot.reply) by the last command
    call,   \* the invocation being modelled: function name and its inputs
    ret     \* how the invocation ended: pending, returned a value, raised

vars == <<cfg, db, http, said, call, ret>>

-----------------------------------------------------------------------------
(* Outcomes of a call *)

Pending == [st |-> "pending"]
Returned(v) == [st |-> "returned", val |-> v]
Raised(e) == [st |-> "raised", exc |-> e]

-----------------------------------------------------------------------------
(* Text *)

CONTROL_BOLD == "\\x02"
CONTROL_COLOR == "\\x03"
ZWSP == "\\u200b"
DEGREE == "<degree>"

\* sopel.formatting.bold: the text between two bold control characters
bold(text) == <<CONTROL_BOLD>> \o text \o <<CONTROL_BOLD>>

\* sopel.formatting.colors: the two-digit colour codes
colors ==
    [LIGHT_BLUE |-> <<"1", "2">>, TEAL |-> <<"1", "0">>, BLUE |-> <<"0", "2">>,
     LIGHT_GREEN |-> <<"0", "9">>, GREEN |-> <<"0", "3">>, YELLOW |-> <<"0", "8">>,
     ORANGE |-> <<"0", "7">>, RED |-> <<"0", "4">>]

\* sopel.formatting.color: control character, colour code, text, control character
color(text, fg) == <<CONTROL_COLOR>> \o colors[fg] \o text \o <<CONTROL_COLOR>>

\* The number of characters repr() writes for one character of a str:
\* a control character as \xNN, the zero-width space as \u200b (six characters), a backslash doubled.
ReprWidth(c) ==
    IF c \in {CONTROL_BOLD, CONTROL_COLOR} THEN 4
    ELSE IF c = ZWSP THEN 6
    ELSE IF c = "\\" THEN 2
    ELSE 1

\* len(repr(s)): the two quotes and every character at its escaped width
repr_len(s) ==
    LET n(w) == Cardinality({i \in 1..Len(s) : ReprWidth(s[i]) = w})
    IN  2 + n(1) + 2 * n(2) + 4 * n(4) + 6 * n(6)

DigitChar == <<"0", "1", "2", "3", "4", "5", "6", "7", "8", "9">>

RECURSIVE Digits(_)
\* "{}".format(n) of an int n >= 0
Digits(n) == IF n < 10 THEN <<DigitChar[n + 1]>> ELSE Digits(n \div 10) \o <<DigitChar[(n % 10) + 1]>>

\* "{}".format(n) of an int
IntStr(n) == IF n < 0 THEN <<"-">> \o Digits(0 - n) ELSE Digits(n)

\* "{}".format(x) of a float x with one decimal, x given in tenths
FloatStr(n) ==
    LET a == IF n < 0 THEN 0 - n ELSE n
    IN  (IF n < 0 THEN <<"-">> ELSE <<>>) \o Digits(a \div 10) \o <<".">> \o Digits(a % 10)

\* round(a / b) for b > 0: to the nearest integer, a tie to the even one
RoundDiv(a, b) ==
    LET q == a \div b
        r == a % b
    IN  IF 2 * r < b THEN q
        ELSE IF 2 * r > b THEN q + 1
        ELSE IF q % 2 = 0 THEN q ELSE q + 1

-----------------------------------------------------------------------------
(* Lookup tables *)

WEATHER_CODE_DESCRIPTIONS ==
    <<"r", "a", "i", "n", "_", "h", "e", "a", "v", "y">> :>
         <<"<cloud-rain>", "<vs16>", " ", "S", "u", "b", "s", "t", "a", "n", "t", "i", "a", "l",
         " ", "r", "a", "i", "n">>
    @@ <<"r", "a", "i", "n">> :>
         <<"<cloud-rain>", "<vs16>", " ", "R", "a", "i", "n">>
    @@ <<"r", "a", "i", "n", "_", "l", "i", "g", "h", "t">> :>
         <<"<cloud-rain>", "<vs16>", " ", "L", "i", "g", "h", "t", " ", "r", "a", "i", "n">>
    @@ <<"f", "r", "e", "e", "z", "i", "n", "g", "_", "r", "a", "i", "n", "_", "h", "e", "a", "v", "y">> :>
         <<"<ice>", "<cloud-rain>", "<vs16>", " ", "S", "u", "b", "s", "t", "a", "n", "t", "i",
         "a", "l", " ", "f", "r", "e", "e", "z", "i", "n", "g", " ", "r", "a", "i", "n">>
    @@ <<"f", "r", "e", "e", "z", "i", "n", "g", "_", "r", "a", "i", "n">> :>
         <<"<ice>", "<cloud-rain>", "<vs16>", " ", "F", "r", "e", "e", "z", "i", "n", "g", " ",
         "r", "a", "i", "n">>
    @@ <<"f", "r", "e", "e", "z", "i", "n", "g", "_", "r", "a", "i", "n", "_", "l", "i", "g", "h", "t">> :>
         <<"<ice>", "<cloud-rain>", "<vs16>", " ", "L", "i", "g", "h", "t", " ", "f", "r", "e",
         "e", "z", "i", "n", "g", " ", "r", "a", "i", "n">>
    @@ <<"f", "r", "e", "e", "z", "i", "n", "g", "_", "d", "r", "i", "z", "z", "l", "e">> :>
         <<"<ice>", "<cloud-rain>", "<vs16>", " ", "L", "i", "g", "h", "t", " ", "f", "r", "e",
         "e", "z", "i", "n", "g", " ", "r", "a", "i", "n", " ", "f", "a", "l", "l", "i", "n",
         "g", " ", "i", "n", " ", "f", "i", "n", "e", " ", "p", "i", "e", "c", "e", "s">>
    @@ <<"d", "r", "i", "z", "z", "l", "e">> :>
         <<"<sun-rain>", "<vs16>", " ", "D", "r", "i", "z", "z", "l", "e">>
    @@ <<"i", "c", "e", "_", "p", "e", "l", "l", "e", "t", "s", "_", "h", "e", "a", "v", "y">> :>
         <<"<ice>", " ", "S", "u", "b", "s", "t", "a", "n", "t", "i", "a", "l", " ", "i", "c",
         "e", " ", "p", "e", "l", "l", "e", "t", "s">>
    @@ <<"i", "c", "e", "_", "p", "e", "l", "l", "e", "t", "s">> :>
         <<"<ice>", " ", "I", "c", "e", " ", "p", "e", "l", "l", "e", "t", "s">>
    @@ <<"i", "c", "e", "_", "p", "e", "l", "l", "e", "t", "s", "_", "l", "i", "g", "h", "t">> :>
         <<"<ice>", " ", "L", "i", "g", "h", "t", " ", "i", "c", "e", " ", "p", "e", "l", "l",
         "e", "t", "s">>
    @@ <<"s", "n", "o", "w", "_", "h", "e", "a", "v", "y">> :>
         <<"<snowflake>", "<vs16>", " ", "S", "u", "b", "s", "t", "a", "n", "t", "i", "a", "l",
         " ", "s", "n", "o", "w">>
    @@ <<"s", "n", "o", "w">> :>
         <<"<snowflake>", "<vs16>", " ", "S", "n", "o", "w">>
    @@ <<"s", "n", "o", "w", "_", "l", "i", "g", "h", "t">> :>
         <<"<snowflake>", "<vs16>", " ", "L", "i", "g", "h", "t", " ", "s", "n", "o", "w">>
    @@ <<"f", "l", "u", "r", "r", "i", "e", "s">> :>
         <<"<snowflake>", "<vs16>", " ", "F", "l", "u", "r", "r", "i", "e", "s">>
    @@ <<"t", "s", "t", "o", "r", "m">> :>
         <<"<lightning>", "<vs16>", " ", "T", "h", "u", "n", "d", "e", "r", "s", "t", "o", "r",
         "m", " ", "c", "o", "n", "d", "i", "t", "i", "o", "n", "s">>
    @@ <<"f", "o", "g", "_", "l", "i", "g", "h", "t">> :>
         <<"<foggy>", " ", "L", "i", "g", "h", "t", " ", "f", "o", "g">>
    @@ <<"f", "o", "g">> :>
         <<"<foggy>", " ", "F", "o", "g">>
    @@ <<"c", "l", "o", "u", "d", "y">> :>
         <<"<cloud>", "<vs16>", " ", "C", "l", "o", "u", "d", "y">>
    @@ <<"m", "o", "s", "t", "l", "y", "_", "c", "l", "o", "u", "d", "y">> :>
         <<"<sun-big-cloud>", "<vs16>", " ", "M", "o", "s", "t", "l", "y", " ", "c", "l", "o",
         "u", "d", "y">>
    @@ <<"p", "a", "r", "t", "l", "y", "_", "c", "l", "o", "u", "d", "y">> :>
         <<"<sun-cloud>", " ", "P", "a", "r", "t", "l", "y", " ", "c", "l", "o", "u", "d", "y">>
    @@ <<"m", "o", "s", "t", "l", "y", "_", "c", "l", "e", "a", "r">> :>
         <<"<sun-small-cloud>", "<vs16>", " ", "M", "o", "s", "t", "l", "y", " ", "c", "l", "e",
         "a", "r">>
    @@ <<"c", "l", "e", "a", "r">> :>
         <<"<sun>", "<vs16>", " ", "C", "l", "e", "a", "r">>

MAPPED_FIELDS ==
    "weather_code" :>
         bold(<<"C", "o", "n", "d", "i", "t", "i", "o", "n", "s", ":">>)
    @@ "feels_like" :>
         bold(<<"F", "e", "e", "l", "s", " ", "L", "i", "k", "e", ":">>)
    @@ "dewpoint" :>
         bold(<<"D", "e", "w", "p", "o", "i", "n", "t", ":">>)
    @@ "humidity" :>
         bold(<<"H", "u", "m", "i", "d", "i", "t", "y", ":">>)
    @@ "wind_speed" :>
         bold(<<"W", "i", "n", "d", " ", "S", "p", "e", "e", "d", ":">>)
    @@ "wind_direction" :>
         bold(<<"W", "i", "n", "d", " ", "D", "i", "r", "e", "c", "t", "i", "o", "n", ":">>)
    @@ "wind_gust" :>
         bold(<<"W", "i", "n", "d", " ", "G", "u", "s", "t", ":">>)
    @@ "baro_pressure" :>
         bold(<<"P", "r", "e", "s", "s", "u", "r", "e", ":">>)
    @@ "precipitation" :>
         bold(<<"P", "r", "e", "c", "i", "p", "i", "t", "a", "t", "i", "o", "n", ":">>)
    @@ "precipitation_type" :>
         bold(<<"P", "r", "e", "c", "i", "p", "i", "t", "a", "t", "i", "o", "n", ":">>)
    @@ "sunrise" :>
         bold(<<"S", "u", "n", "r", "i", "s", "e", ":">>)
    @@ "sunset" :>
         bold(<<"S", "u", "n", "s", "e", "t", ":">>)
    @@ "visibility" :>
         bold(<<"V", "i", "s", "i", "b", "i", "l", "i", "t", "y", ":">>)
    @@ "cloud_cover" :>
         bold(<<"C", "l", "o", "u", "d", " ", "C", "o", "v", "e", "r", ":">>)
    @@ "cloud_base" :>
         bold(<<"C", "l", "o", "u", "d", " ", "B", "a", "s", "e", ":">>)
    @@ "cloud_ceiling" :>
         bold(<<"C", "l", "o", "u", "d", " ", "C", "e", "i", "l", "i", "n", "g", ":">>)
    @@ "surface_shortwave_radiation" :>
         bold(<<"S", "o", "l", "a", "r", " ", "R", "a", "d", "i", "a", "t", "i", "o", "n",
         ":">>)
    @@ "moon_phase" :>
         bold(<<"M", "o", "o", "n", " ", "P", ZWSP, "h", "a", "s", "e", ":">>)
    @@ "epa_health_concern" :>
         bold(<<"A", "i", "r", " ", "Q", "u", "a", "l", "i", "t", "y", ":">>)

moon_phases ==
    <<"n", "e", "w">> :>
         <<"<new-moon>", " ", "n", "e", "w", " ", "m", "o", "o", "n">>
    @@ <<"n", "e", "w", "_", "m", "o", "o", "n">> :>
         <<"<new-moon>", " ", "n", "e", "w", " ", "m", "o", "o", "n">>
    @@ <<"w", "a", "x", "i", "n", "g", "_", "c", "r", "e", "s", "c", "e", "n", "t">> :>
         <<"<waxing-crescent>", " ", "w", "a", "x", "i", "n", "g", " ", "c", "r", "e", "s", "c",
         "e", "n", "t", " ", "(", "1", "/", "4", " ", "f", "u", "l", "l", ")">>
    @@ <<"f", "i", "r", "s", "t", "_", "q", "u", "a", "r", "t", "e", "r">> :>
         <<"<first-quarter>", " ", "h", "a", "l", "f", " ", "m", "o", "o", "n", " ", "(", "f",
         "i", "r", "s", "t", " ", "q", "u", "a", "r", "t", "e", "r", ")">>
    @@ <<"w", "a", "x", "i", "n", "g", "_", "g", "i", "b", "b", "o", "u", "s">> :>
         <<"<waxing-gibbous>", " ", "w", "a", "x", "i", "n", "g", " ", "g", "i", "b", "b", "o",
         "u", "s", " ", "(", "3", "/", "4", " ", "f", "u", "l", "l", ")">>
    @@ <<"f", "u", "l", "l">> :>
         <<"<full-moon>", " ", "f", "u", "l", "l", " ", "m", "o", "o", "n">>
    @@ <<"w", "a", "n", "i", "n", "g", "_", "g", "i", "b", "b", "o", "u", "s">> :>
         <<"<waning-gibbous>", " ", "w", "a", "n", "i", "n", "g", " ", "g", "i", "b", "b", "o",
         "u", "s", " ", "(", "3", "/", "4", " ", "f", "u", "l", "l", ")">>
    @@ <<"t", "h", "i", "r", "d", "_", "q", "u", "a", "r", "t", "e", "r">> :>
         <<"<last-quarter>", " ", "h", "a", "l", "f", " ", "m", "o", "o", "n", " ", "(", "l",
         "a", "s", "t", " ", "q", "u", "a", "r", "t", "e", "r", ")">>
    @@ <<"l", "a", "s", "t", "_", "q", "u", "a", "r", "t", "e", "r">> :>
         <<"<last-quarter>", " ", "h", "a", "l", "f", " ", "m", "o", "o", "n", " ", "(", "l",
         "a", "s", "t", " ", "q", "u", "a", "r", "t", "e", "r", ")">>
    @@ <<"w", "a", "n", "i", "n", "g", "_", "c", "r", "e", "s", "c", "e", "n", "t">> :>
         <<"<waning-crescent>", " ", "w", "a", "n", "i", "n", "g", " ", "c", "r", "e", "s", "c",
         "e", "n", "t", " ", "(", "1", "/", "4", " ", "f", "u", "l", "l", ")">>

ATTRIBUTION ==
    <<" ", "|", " ", "P", "o", "w", "e", "r", "e", "d", " ", "b", "y", " ", "C", "l", "i", "m",
    "a", "C", "e", "l", "l", " ", "A", "P", "I", " ", "(", "h", "t", "t", "p", "s", ":", "/",
    "/", "w", "w", "w", ".", "c", "l", "i", "m", "a", "c", "e", "l", "l", ".", "c", "o", "/",
    "w", "e", "a", "t", "h", "e", "r", "-", "a", "p", "i", ")">>

-----------------------------------------------------------------------------
(* get_wind and _get_temp_color *)

Arrow(glyph, label) == <<glyph, " ">> \o label

\* The N sector's test with 337.5 counted in: a plausible slip of the comparison.
get_wind_inclusive(bearing) ==
    IF (bearing <= 225) \/ (bearing >= 3375) THEN Arrow("<down>", <<"N">>)
    ELSE IF (bearing > 225) /\ (bearing <= 675) THEN Arrow("<down-left>", <<"N", "E">>)
    ELSE IF (bearing > 675) /\ (bearing <= 1125) THEN Arrow("<left>", <<"E">>)
    ELSE IF (bearing > 1125) /\ (bearing <= 1575) THEN Arrow("<up-left>", <<"S", "E">>)
    ELSE IF (bearing > 1575) /\ (bearing <= 2025) THEN Arrow("<up>", <<"S">>)
    ELSE IF (bearing > 2025) /\ (bearing <= 2475) THEN Arrow("<up-right>", <<"S", "W">>)
    ELSE IF (bearing > 2475) /\ (bearing <= 2925) THEN Arrow("<right>", <<"W">>)
    ELSE Arrow("<down-right>", <<"N", "W">>)

\* get_wind: bearing in tenths of a degree (22.5 is 225)
get_wind(bearing) ==
    IF (bearing <= 225) \/ (bearing > 3375) THEN Arrow("<down>", <<"N">>)
    ELSE IF (bearing > 225) /\ (bearing <= 675) THEN Arrow("<down-left>", <<"N", "E">>)
    ELSE IF (bearing > 675) /\ (bearing <= 1125) THEN Arrow("<left>", <<"E">>)
    ELSE IF (bearing > 1125) /\ (bearing <= 1575) THEN Arrow("<up-left>", <<"S", "E">>)
    ELSE IF (bearing > 1575) /\ (bearing <= 2025) THEN Arrow("<up>", <<"S">>)
    ELSE IF (bearing > 2025) /\ (bearing <= 2475) THEN Arrow("<up-right>", <<"S", "W">>)
    ELSE IF (bearing > 2475) /\ (bearing <= 2925) THEN Arrow("<right>", <<"W">>)
    ELSE IF (bearing > 2925) /\ (bearing <= 3375) THEN Arrow("<down-right>", <<"N", "W">>)
    ELSE bearing    \* returned as it came: no number gets here

\* The colour scale with the thresholds counted into the band below them.
_get_temp_color_inclusive(num, den) ==
    IF num <= 10 * den THEN "LIGHT_BLUE"
    ELSE IF num <= 32 * den THEN "TEAL"
    ELSE IF num <= 50 * den THEN "BLUE"
    ELSE IF num <= 60 * den THEN "LIGHT_GREEN"
    ELSE IF num <= 70 * den THEN "GREEN"
    ELSE IF num <= 80 * den THEN "YELLOW"
    ELSE IF num <= 90 * den THEN "ORANGE"
    ELSE "RED"

\* _get_temp_color(f) for f = num / den degrees Fahrenheit, den > 0
_get_temp_color(num, den) ==
    IF num < 10 * den THEN "LIGHT_BLUE"
    ELSE IF num < 32 * den THEN "TEAL"
    ELSE IF num < 50 * den THEN "BLUE"
    ELSE IF num < 60 * den THEN "LIGHT_GREEN"
    ELSE IF num < 70 * den THEN "GREEN"
    ELSE IF num < 80 * den THEN "YELLOW"
    ELSE IF num < 90 * den THEN "ORANGE"
    ELSE "RED"

-----------------------------------------------------------------------------
(* Values of the weather API's JSON and Python's view of them *)

None == [t |-> "None"]
Missing == [t |-> "missing"]         \* the key is not in the dict
JInt(n) == [t |-> "int", n |-> n]     \* a JSON integer
JFloat(n) == [t |-> "float", n |-> n] \* a JSON number with a decimal, in tenths
JStr(s) == [t |-> "str", s |-> s]     \* a JSON string, as text

\* d.get(key): None for a key that is missing
Get(x) == IF x = Missing THEN None ELSE x

\* Python's truth value of a JSON value
Truthy(x) ==
    CASE x.t = "int" -> x.n # 0
      [] x.t = "float" -> x.n # 0
      [] x.t = "str" -> x.s # <<>>
      [] OTHER -> FALSE

IsNumber(x) == x.t \in {"int", "float"}

\* A number in tenths
Tenths(x) == IF x.t = "int" THEN 10 * x.n ELSE x.n

\* str(x), "{}".format(x)
PyStr(x) ==
    CASE x.t = "int" -> IntStr(x.n)
      [] x.t = "float" -> FloatStr(x.n)
      [] x.t = "str" -> x.s
      [] OTHER -> <<"N", "o", "n", "e">>

-----------------------------------------------------------------------------
(* Text operations of the str type *)

MatchAt(s, i, pat) ==
    /\ i + Len(pat) - 1 <= Len(s)
    /\ \A j \in 1..Len(pat) : s[i + j - 1] = pat[j]

RECURSIVE Leftmost(_, _, _)
\* The starts of the occurrences taken from left to right without overlap
Leftmost(starts, from, n) ==
    LET rest == {i \in starts : i >= from}
    IN  IF rest = {} THEN <<>>
        ELSE LET m == CHOOSE i \in rest : \A j \in rest : i <= j
             IN  <<m>> \o Leftmost(starts, m + n, n)

\* s.split(sep), sep not empty
split(s, sep) ==
    LET at == Leftmost({i \in 1..Len(s) : MatchAt(s, i, sep)}, 1, Len(sep))
        n == Len(at)
    IN  [k \in 1..(n + 1) |->
            SubSeq(s, IF k = 1 THEN 1 ELSE at[k - 1] + Len(sep),
                      IF k = n + 1 THEN Len(s) ELSE at[k] - 1)]

RECURSIVE join(_, _)
\* sep.join(parts)
join(sep, parts) ==
    IF parts = <<>> THEN <<>>
    ELSE IF Len(parts) = 1 THEN parts[1]
    ELSE parts[1] \o sep \o join(sep, Tail(parts))

\* s.replace(pat, rep), pat not empty: the occurrences replaced are those
\* s.split(pat) cuts at, the leftmost ones without overlap
replace(s, pat, rep) == join(rep, split(s, pat))

-----------------------------------------------------------------------------
(* _parse_time: pendulum.parse(time, strict=False).in_tz(tz).format("h:mm A zz") *)

DigitVal(c) == CHOOSE d \in 0..9 : DigitChar[d + 1] = c

IsDigit(c) == \E d \in 0..9 : DigitChar[d + 1] = c

\* The zones of the model on the dates of its timestamps: offset from UTC in
\* minutes and the abbreviation.
Zones ==
    [NewYork |-> [offset |-> 0 - 240, abbr |-> <<"E", "D", "T">>],
     London |-> [offset |-> 60, abbr |-> <<"B", "S", "T">>],
     Kolkata |-> [offset |-> 330, abbr |-> <<"I", "S", "T">>]]

\* A UTC timestamp YYYY-MM-DDTHH:MM:SS.mmmZ is read; any other text is not a time.
IsTime(s) ==
    /\ Len(s) = 24
    /\ s[11] = "T" /\ s[14] = ":" /\ s[24] = "Z"
    /\ \A i \in {12, 13, 15, 16} : IsDigit(s[i])

_parse_time(time, tz) ==
    IF time.t # "str" THEN Raised("TypeError")
    ELSE IF ~IsTime(time.s) THEN Raised("ParserError")
    ELSE LET s == time.s
             utc == 60 * (10 * DigitVal(s[12]) + DigitVal(s[13]))
                       + 10 * DigitVal(s[15]) + DigitVal(s[16])
             local == (utc + Zones[tz].offset) % 1440
             h == local \div 60
             m == local % 60
             h12 == IF h % 12 = 0 THEN 12 ELSE h % 12
         IN  Returned(Digits(h12) \o <<":">> \o Digits(m \div 10) \o Digits(m % 10)
                       \o <<" ">> \o (IF h < 12 THEN <<"A", "M">> ELSE <<"P", "M">>)
                       \o <<" ">> \o Zones[tz].abbr)

-----------------------------------------------------------------------------
(* _get_value_format *)

\* table[key] of a dict whose keys are strings: a KeyError for any other key
Lookup(table, key) ==
    IF key.t = "str" /\ key.s \in DOMAIN table THEN Returned(table[key.s])
    ELSE Raised("KeyError")

\* moonphases(): moon_phases[value]
moonphases(value) == Lookup(moon_phases, value)

\* round_int(): "{}".format(round(value))
round_int(value) ==
    CASE value.t = "int" -> Returned(IntStr(value.n))
      [] value.t = "float" -> Returned(IntStr(RoundDiv(value.n, 10)))
      [] OTHER -> Raised("TypeError")

\* round_decimal(): "{:.2f}".format(round(value, 2))
round_decimal(value) ==
    CASE value.t = "int" -> Returned(IntStr(value.n) \o <<".", "0", "0">>)
      [] value.t = "float" -> Returned(FloatStr(value.n) \o <<"0">>)
      [] OTHER -> Raised("TypeError")

\* stringify(): "{}".format(value)
stringify(value) == Returned(PyStr(value))

_get_value_format(value, field) ==
    CASE field \in {"humidity", "wind_speed", "wind_gust", "visibility",
                    "surface_shortwave_radiation"} -> round_int(value)
      [] field = "baro_pressure" -> round_decimal(value)
      [] field = "moon_phase" -> moonphases(value)
      [] OTHER -> stringify(value)

-----------------------------------------------------------------------------
(* _parse_data *)

SEP == <<" ", "|", " ">>
UNITS_PLACEHOLDER == <<"$", "u", "n", "i", "t", "s">>
SKIPPED_KEYS == {"lat", "lon", "observation_time"}

\* A dict {'value': v}: it has no units key
OnlyValue(v) == [value |-> v, units |-> Missing]

\* value_map = {'value': <the text computed>}, or the error that computing it raised
Replaced(r) == IF r.st = "raised" THEN r ELSE Returned(OnlyValue(JStr(r.val)))

\* Lines 330-331: the weather code is replaced by its description
WeatherCodeStep(key, values) ==
    IF key # "weather_code" THEN Returned(values)
    ELSE Replaced(Lookup(WEATHER_CODE_DESCRIPTIONS, values.value))

\* Lines 333-349: a temperature in F or C is written in both, coloured
UnitsStep(value_map) ==
    LET v == value_map.value
        t == Tenths(v)
    IN  IF ~Truthy(Get(value_map.units)) THEN Returned(value_map)
        ELSE IF value_map.units = JStr(<<"F">>) THEN
            IF ~IsNumber(v) THEN Raised("TypeError")
            ELSE LET f_color == _get_temp_color(t, 10)
                     f == IF v.t = "int" THEN v.n ELSE RoundDiv(t, 10)
                     c == RoundDiv((t - 320) * 5, 9)
                 IN  Returned(OnlyValue(JStr(
                         color(IntStr(f), f_color) \o <<DEGREE, "F", "/">>
                         \o color(FloatStr(c), f_color) \o <<DEGREE, "C">>)))
        ELSE IF value_map.units = JStr(<<"C">>) THEN
            IF ~IsNumber(v) THEN Raised("TypeError")
            ELSE LET f_color == _get_temp_color(18 * t + 3200, 100)
                     f == RoundDiv(18 * t + 3200, 100)
                 IN  Returned(OnlyValue(JStr(
                         color(PyStr(v), f_color) \o <<DEGREE, "C", "/">>
                         \o color(IntStr(f), f_color) \o <<DEGREE, "F">>)))
        ELSE Returned(value_map)

\* Lines 351-352: the bearing is replaced by its compass label
WindStep(key, values, value_map) ==
    IF key # "wind_direction" THEN Returned(value_map)
    ELSE IF ~IsNumber(values.value) THEN Raised("TypeError")
    ELSE Returned(OnlyValue(JStr(get_wind(Tenths(values.value)))))

\* Lines 354-355: sunrise and sunset are written in the location's zone
TimeStep(key, values, value_map, timezone) ==
    IF key \notin {"sunrise", "sunset"} THEN Returned(value_map)
    ELSE Replaced(_parse_time(values.value, timezone))

\* The per-field format with its error let through.
FormatUncaught(value_map, r) ==
    IF r.st = "raised" THEN r ELSE Returned([value_map EXCEPT !.value = JStr(r.val)])

\* Lines 357-360, the try and the except: r is what _get_value_format did; an
\* error of it leaves the value as it is
FormatCaught(value_map, r) ==
    IF r.st = "raised" THEN Returned(value_map)
    ELSE Returned([value_map EXCEPT !.value = JStr(r.val)])

\* Lines 357-360
ValueFormatted(value_map, key) ==
    FormatCaught(value_map, _get_value_format(value_map.value, key))

\* The substitution with the units never written.
SubstitutedNoUnits(value_map) == PyStr(value_map.value) \o UNITS_PLACEHOLDER

\* Line 362: Template("$value$units").safe_substitute(value_map); a name
\* that is no key of the dict stays as the placeholder
Substituted(value_map) ==
    PyStr(value_map.value)
        \o (IF value_map.units = Missing THEN UNITS_PLACEHOLDER ELSE PyStr(value_map.units))

\* Lines 330-362 for one field, step after step: the text that "$value$units"
\* becomes, or the error raised.  Each step gets what the one before returned.
AfterValueFormat(e) == IF e.st = "raised" THEN e ELSE Returned(Substituted(e.val))

AfterTime(key, d) ==
    IF d.st = "raised" THEN d ELSE AfterValueFormat(ValueFormatted(d.val, key))

AfterWind(key, values, timezone, c) ==
    IF c.st = "raised" THEN c ELSE AfterTime(key, TimeStep(key, values, c.val, timezone))

AfterUnits(key, values, timezone, b) ==
    IF b.st = "raised" THEN b
    ELSE AfterWind(key, values, timezone, WindStep(key, values, b.val))

AfterWeatherCode(key, values, timezone, a) ==
    IF a.st = "raised" THEN a ELSE AfterUnits(key, values, timezone, UnitsStep(a.val))

FieldText(key, values, timezone) ==
    AfterWeatherCode(key, values, timezone, WeatherCodeStep(key, values))

\* d.get(key, default) of a dict whose keys are field names
GetOr(table, key, default) == IF key \in DOMAIN table THEN table[key] ELSE default

\* Line 327 negated: the field is not skipped for its value
HasValue(values) == Truthy(Get(values.value)) /\ Get(values.value) # JStr(<<"n", "o", "n", "e">>)

RECURSIVE ParseFrom(_, _, _, _, _, _)
RECURSIVE Added(_, _, _, _, _, _, _)

\* Lines 362-367: the field's text r is added after the prefix and the label;
\* an error in computing it ends _parse_data
Added(data, timezone, i, string, idx, shown, r) ==
    IF r.st = "raised" THEN r
    ELSE ParseFrom(data, timezone, i + 1,
                   string \o (IF idx = 0 THEN <<>> ELSE SEP)
                          \o GetOr(MAPPED_FIELDS, data[i].key, <<>>) \o <<" ">> \o r.val,
                   idx + 1, Append(shown, data[i].key))

\* The loop of _parse_data from item i on.  shown lists the keys whose text was
\* added to string, in the order they were added.
ParseFrom(data, timezone, i, string, idx, shown) ==
    IF i > Len(data)
    THEN Returned([string |-> replace(string, UNITS_PLACEHOLDER, <<>>), shown |-> shown])
    ELSE IF data[i].key \in SKIPPED_KEYS \/ ~HasValue(data[i].values)
    THEN ParseFrom(data, timezone, i + 1, string, idx, shown)
    ELSE Added(data, timezone, i, string, idx, shown,
               FieldText(data[i].key, data[i].values, timezone))

\* _parse_data(data, timezone): data is the dict as the sequence of its items
_parse_data(data, timezone) == ParseFrom(data, timezone, 1, <<>>, 0, <<>>)

-----------------------------------------------------------------------------
(* get_weather, after the response arrived *)

SORTED_FIELDS ==
    "weather_code" :> 3 @@ "temp" :> 1 @@ "feels_like" :> 2 @@ "dewpoint" :> 7
    @@ "humidity" :> 6 @@ "wind_speed" :> 8 @@ "wind_direction" :> 10 @@ "wind_gust" :> 9
    @@ "baro_pressure" :> 11 @@ "precipitation" :> 5 @@ "precipitation_type" :> 4
    @@ "sunrise" :> 12 @@ "sunset" :> 13 @@ "visibility" :> 14 @@ "cloud_cover" :> 15
    @@ "cloud_base" :> 16 @@ "cloud_ceiling" :> 17 @@ "surface_shortwave_radiation" :> 18
    @@ "moon_phase" :> 19 @@ "epa_health_concern" :> 20

\* The sort key with a field outside the table ranked before all others.
sort_keys_first(k) == GetOr(SORTED_FIELDS, k, 0)

\* Lines 295-300: the rank of the table, 999 for a field outside it (or of rank 0)
sort_keys(k) == IF GetOr(SORTED_FIELDS, k, 0) # 0 THEN GetOr(SORTED_FIELDS, k, 0) ELSE 999

\* Line 301: sorted(data, key=...) is stable; the dict keeps that order
sorted_dict(data) ==
    LET n == Len(data)
        before(j, i) ==
            \/ sort_keys(data[j].key) < sort_keys(data[i].key)
            \/ sort_keys(data[j].key) = sort_keys(data[i].key) /\ j < i
        place(i) == 1 + Cardinality({j \in 1..n : before(j, i)})
    IN  [p \in 1..n |-> data[CHOOSE i \in 1..n : place(i) = p]]

\* Lines 304-308: the bold bracketed location, the fields, the attribution
base_string(location, parsed_fields) ==
    bold(<<"[">> \o location \o <<"]">>) \o <<" ">> \o parsed_fields \o ATTRIBUTION

\* Lines 302-310: the reply of the parsed fields, or the error _parse_data raised
Wrapped(bundle, parsed) ==
    IF parsed.st = "raised" THEN parsed
    ELSE Returned([base_string |-> base_string(bundle.location, parsed.val.string),
                   string |-> parsed.val.string,
                   shown |-> parsed.val.shown])

\* Lines 295-310: the reply text of a response, or the error raised
get_weather(bundle, data) == Wrapped(bundle, _parse_data(sorted_dict(data), bundle.tz))

-----------------------------------------------------------------------------
(* str.strip() and str.lower() on the command's argument *)

UPPER == <<"A", "B", "C", "D", "E", "F", "G", "H", "I", "J", "K", "L", "M",
           "N", "O", "P", "Q", "R", "S", "T", "U", "V", "W", "X", "Y", "Z">>
LOWER == <<"a", "b", "c", "d", "e", "f", "g", "h", "i", "j", "k", "l", "m",
           "n", "o", "p", "q", "r", "s", "t", "u", "v", "w", "x", "y", "z">>

lower(s) ==
    [i \in 1..Len(s) |->
        IF \E k \in 1..Len(UPPER) : UPPER[k] = s[i]
        THEN LOWER[CHOOSE k \in 1..Len(UPPER) : UPPER[k] = s[i]]
        ELSE s[i]]

strip(s) ==
    LET inked == {i \in 1..Len(s) : s[i] # " "}
    IN  IF inked = {} THEN <<>>
        ELSE SubSeq(s, CHOOSE i \in inked : \A j \in inked : i <= j,
                       CHOOSE i \in inked : \A j \in inked : i >= j)

-----------------------------------------------------------------------------
(* get_latlon *)

\* The geocoding response: ok is FALSE when the request or its JSON failed;
\* results is data['results'], each with formatted_address, lat and lng, any
\* of which may be Missing.
get_latlon(response) ==
    LET nothing == [lat |-> None, lon |-> None, loc |-> None]
    IN  IF ~response.ok \/ response.results = <<>> THEN nothing
        ELSE LET data == response.results[1]
             IN  IF data.formatted_address = Missing THEN nothing
                 ELSE IF data.lat = Missing
                      THEN [nothing EXCEPT !.loc = data.formatted_address]
                 ELSE IF data.lng = Missing
                      THEN [nothing EXCEPT !.loc = data.formatted_address, !.lat = data.lat]
                 ELSE [lat |-> data.lat, lon |-> data.lng, loc |-> data.formatted_address]

-----------------------------------------------------------------------------
(* The commands *)

\* A message sent with bot.say or bot.reply: a fixed message by its name, the
\* text that varies in text
Sent(how, msg, text) == [how |-> how, msg |-> msg, text |-> text]

GeocodeRequest(address) == [api |-> "geocode", address |-> address]
TimezoneRequest(lat, lng) == [api |-> "timezone", lat |-> lat, lng |-> lng]
WeatherRequest(lat, lon) == [api |-> "weather", lat |-> lat, lon |-> lon]

\* What a command did: the requests it issued, the messages it sent, how it ended
Did(requests, messages, end) == [http |-> requests, said |-> messages, ret |-> end]

CHAZ == <<"c", "h", "a", "z">>
CAPITOL_HILL == <<"c", "a", "p", "i", "t", "o", "l", " ", "h", "i", "l", "l", " ",
                  "s", "e", "a", "t", "t", "l", "e">>

\* The length test on the reply's own length instead of its repr's.
too_long_len(reply) == Len(reply) > 475

\* Line 207: len(repr(reply)) > 475
too_long(reply) == repr_len(reply) > 475

\* The split point rounded up.
div_up(parts) == (Len(parts) + 1) \div 2

\* Line 209: int(len(reply) / 2)
div(parts) == Len(parts) \div 2

\* Lines 210-211: the pieces before the split point, and those from it on
two_says(parts, at) ==
    <<Sent("say", "weather", join(SEP, SubSeq(parts, 1, at))),
      Sent("say", "weather", join(SEP, SubSeq(parts, at + 1, Len(parts))))>>

\* Lines 208-211
halves(parts) == two_says(parts, div(parts))

\* Lines 207-214: the reply in one message, or its " | " pieces in two
say_reply(reply) ==
    IF too_long(reply) THEN halves(split(reply, SEP))
    ELSE <<Sent("say", "weather", reply)>>

\* Lines 206-214: the reply is said; an error of get_weather is not caught
replied(requests, reply) ==
    IF reply.st = "raised" THEN Did(requests, <<>>, reply)
    ELSE Did(requests, say_reply(reply.val.base_string), Returned("None"))

\* Lines 196-214: the fetch and the reply
fetch(trigger, location, requests) ==
    IF ~trigger.wx.ok THEN Did(requests, <<>>, Raised("RequestException"))
    ELSE replied(requests,
                 get_weather([location |-> location, tz |-> trigger.tz.zone], trigger.wx.data))

\* Lines 187-214 of weather: the timezone lookup, the fetch, the reply.  An
\* error of a lookup is not caught: the command ends there.
report(trigger, latitude, longitude, location, requests) ==
    IF ~trigger.tz.ok
    THEN Did(Append(requests, TimezoneRequest(latitude, longitude)), <<>>, Raised("KeyError"))
    ELSE fetch(trigger, location,
               requests \o <<TimezoneRequest(latitude, longitude),
                             WeatherRequest(latitude, longitude)>>)

\* The place of the report, or what the command did instead of reporting
Known(latitude, longitude, location, requests) ==
    [known |-> TRUE, latitude |-> latitude, longitude |-> longitude, location |-> location,
     http |-> requests, did |-> Did(requests, <<>>, Pending)]
Unknown(did) ==
    [known |-> FALSE, latitude |-> None, longitude |-> None, location |-> <<>>,
     http |-> did.http, did |-> did]

\* Lines 166-174: the location stored for the nick
stored_location(stored) ==
    IF ~Truthy(stored.location)
    THEN Unknown(Did(<<>>, <<Sent("say", "I don't know where you live", <<>>)>>,
                     Returned("None")))
    ELSE Known(stored.latitude, stored.longitude, stored.location.s, <<>>)

\* Lines 183-185: the location the geocoder found for the address
geocoded(address, found) ==
    IF ~Truthy(found.lat)
    THEN Unknown(Did(<<GeocodeRequest(address)>>,
                     <<Sent("reply", "I couldn't find a location by that name", <<>>)>>,
                     Returned("NOLIMIT")))
    ELSE Known(found.lat, found.lon, found.loc.s, <<GeocodeRequest(address)>>)

\* Lines 177-178
alias(user_input) == IF user_input = CHAZ THEN CAPITOL_HILL ELSE user_input

\* Lines 164-185
locate(store, trigger) ==
    IF ~Truthy(trigger.arg) THEN stored_location(store[trigger.nick])
    ELSE geocoded(alias(lower(strip(trigger.arg.s))), get_latlon(trigger.geo))

\* Lines 187-214
located(trigger, place) ==
    IF place.known
    THEN report(trigger, place.latitude, place.longitude, place.location, place.http)
    ELSE place.did

\* weather(bot, trigger)
weather(config, store, trigger) ==
    IF ~Truthy(config.climacell_api_key)
    THEN Did(<<>>, <<Sent("reply", "No ClimaCell API key found", <<>>)>>, Returned("None"))
    ELSE IF ~Truthy(config.google_api_key)
    THEN Did(<<>>, <<Sent("reply", "No Google API key found", <<>>)>>, Returned("None"))
    ELSE located(trigger, locate(store, trigger))

\* Lines 239-253: the geocoder's answer is stored, or reported as not found
set_found(store, nick, user_input, found) ==
    IF ~Truthy(found.lat)
    THEN [did |-> Did(<<GeocodeRequest(user_input)>>,
                      <<Sent("reply", "I couldn't find a location by that name", <<>>)>>,
                      Returned("NOLIMIT")),
          store |-> store]
    ELSE [did |-> Did(<<GeocodeRequest(user_input)>>,
                      <<Sent("reply", "I now have you at", found.loc.s)>>,
                      Returned("None")),
          store |-> [store EXCEPT ![nick] =
                        [latitude |-> found.lat, longitude |-> found.lon,
                         location |-> found.loc]]]

\* set_location(bot, trigger): what it did and the store it leaves
set_location(config, store, trigger) ==
    IF ~Truthy(config.google_api_key)
    THEN [did |-> Did(<<>>, <<Sent("reply", "No Google API key found", <<>>)>>,
                      Returned("None")),
          store |-> store]
    ELSE IF ~Truthy(trigger.arg)
    THEN [did |-> Did(<<>>, <<Sent("reply", "Give me a location", <<>>)>>,
                      Returned("NOLIMIT")),
          store |-> store]
    ELSE set_found(store, trigger.nick, lower(strip(trigger.arg.s)), get_latlon(trigger.geo))

-----------------------------------------------------------------------------
(* Bounds of the model *)

MaxBearing == 3600      \* bearings 0..MaxBearing, in tenths of a degree
BelowZero == 200        \* temperatures from -BelowZero, in tenths of a degree F
MaxTemp == 1100         \* ... to MaxTemp
MaxFields == 2          \* fields of a weather response given to the formatter
MinLong == 300          \* lengths of the long location names
MaxLong == 412

-----------------------------------------------------------------------------
(* Inputs *)

Nicks == {"alice", "bob"}

KEY == JStr(<<"k", "e", "y">>)
KeyValues == {None, JStr(<<>>), KEY}

BOSTON == JStr(<<"B", "o", "s", "t", "o", "n", ",", " ", "M", "A", ",", " ", "U", "S", "A">>)
PARIS == JStr(<<"P", "a", "r", "i", "s", ",", " ", "F", "r", "a", "n", "c", "e">>)
MACAPA == JStr(<<"M", "a", "c", "a", "p", "a", ",", " ", "A", "P", ",", " ", "B", "r", "a",
                 "z", "i", "l">>)

Place(name, lat, lng) == [formatted_address |-> name, lat |-> lat, lng |-> lng]
Found(results) == [ok |-> TRUE, results |-> results]
NotReached == [ok |-> FALSE, results |-> <<>>]

InBoston == Place(BOSTON, JFloat(423), JFloat(0 - 711))
InParis == Place(PARIS, JFloat(488), JFloat(23))
OnEquator == Place(MACAPA, JInt(0), JFloat(0 - 510))

GeoResponses ==
    {NotReached, Found(<<>>), Found(<<InBoston>>), Found(<<OnEquator>>),
     Found(<<InParis, InBoston>>),
     Found(<<Place(BOSTON, JFloat(423), Missing)>>),
     Found(<<Place(BOSTON, Missing, Missing)>>)}

Args == {None, JStr(<<"B", "o", "s", "t", "o", "n">>), JStr(<<" ", "C", "H", "A", "Z", " ">>)}

TzResponses == {[ok |-> FALSE, zone |-> "NewYork"], [ok |-> TRUE, zone |-> "NewYork"]}

Item(key, value, units) == [key |-> key, values |-> [value |-> value, units |-> units]]

CLEAR == JStr(<<"c", "l", "e", "a", "r">>)
TORNADO == JStr(<<"t", "o", "r", "n", "a", "d", "o">>)
FULL == JStr(<<"f", "u", "l", "l">>)
BLUE == JStr(<<"b", "l", "u", "e">>)
NONE == JStr(<<"n", "o", "n", "e">>)
RAIN == JStr(<<"r", "a", "i", "n">>)
F == JStr(<<"F">>)
C == JStr(<<"C">>)
PERCENT == JStr(<<"%">>)
DEGREES == JStr(<<"d", "e", "g", "r", "e", "e", "s">>)
INHG == JStr(<<"i", "n", "H", "g">>)
UGM3 == JStr(<<"u", "g", "/", "m", "3">>)
AT_1012 == JStr(<<"2", "0", "2", "0", "-", "0", "6", "-", "0", "1", "T", "1", "0", ":", "1",
                  "2", ":", "3", "4", ".", "0", "0", "0", "Z">>)
SOON == JStr(<<"s", "o", "o", "n">>)

\* The weather responses of the commands' specification
Temp == Item("temp", JFloat(724), F)
FeelsLike == Item("feels_like", JInt(70), F)
Conditions == Item("weather_code", CLEAR, Missing)
Humidity == Item("humidity", JFloat(555), PERCENT)
Moon == Item("moon_phase", FULL, Missing)

Fetched(data) == [ok |-> TRUE, data |-> data]
NotFetched == [ok |-> FALSE, data |-> <<>>]

WxResponses ==
    {NotFetched, Fetched(<<Conditions, FeelsLike, Temp>>),
     Fetched(<<Item("weather_code", TORNADO, Missing), Temp>>)}

\* The values the formatter's specification gives each field
FieldValues(key) ==
    CASE key = "temp" ->
            {[value |-> JFloat(724), units |-> F], [value |-> JFloat(0), units |-> F],
             [value |-> JFloat(25), units |-> C], [value |-> Missing, units |-> F]}
      [] key = "weather_code" ->
            {[value |-> CLEAR, units |-> Missing], [value |-> TORNADO, units |-> Missing],
             [value |-> NONE, units |-> Missing]}
      [] key = "precipitation_type" ->
            {[value |-> RAIN, units |-> Missing], [value |-> NONE, units |-> Missing]}
      [] key = "humidity" ->
            {[value |-> JFloat(555), units |-> PERCENT], [value |-> JInt(60), units |-> Missing],
             [value |-> None, units |-> PERCENT]}
      [] key = "wind_direction" ->
            {[value |-> JInt(0), units |-> DEGREES], [value |-> JFloat(3375), units |-> DEGREES]}
      [] key = "baro_pressure" ->
            {[value |-> JFloat(299), units |-> INHG], [value |-> JInt(30), units |-> None]}
      [] key = "sunrise" ->
            {[value |-> AT_1012, units |-> Missing], [value |-> SOON, units |-> Missing]}
      [] key = "moon_phase" ->
            {[value |-> FULL, units |-> Missing], [value |-> BLUE, units |-> Missing],
             [value |-> JStr(<<>>), units |-> Missing]}
      [] key = "pm25" ->
            {[value |-> JFloat(125), units |-> UGM3], [value |-> JInt(0), units |-> UGM3]}
      [] key = "o3" -> {[value |-> JInt(30), units |-> Missing]}
      [] key = "lat" -> {[value |-> JFloat(423), units |-> Missing]}
      [] key = "observation_time" -> {[value |-> AT_1012, units |-> Missing]}

FormatKeys ==
    {"temp", "weather_code", "precipitation_type", "humidity", "wind_direction",
     "baro_pressure", "sunrise", "moon_phase", "pm25", "o3", "lat", "observation_time"}

Items == UNION {{[key |-> k, values |-> v] : v \in FieldValues(k)} : k \in FormatKeys}

\* Every known weather code and every known moon phase, alone in a response
KnownValues ==
    {<<Item("weather_code", JStr(c), Missing)>> : c \in DOMAIN WEATHER_CODE_DESCRIPTIONS}
    \cup {<<Item("moon_phase", JStr(m), Missing)>> : m \in DOMAIN moon_phases}

\* A ranked field and two unranked ones, in every order
Mixed ==
    {d \in [1..3 -> {Temp, Item("o3", JInt(30), Missing), Item("pm25", JFloat(125), UGM3)}] :
        \A i, j \in 1..3 : i # j => d[i] # d[j]}

\* The dicts of at most MaxFields items: every order, no key twice
FormatData ==
    KnownValues \cup Mixed
    \cup UNION {{d \in [1..n -> Items] : \A i, j \in 1..n : i # j => d[i].key # d[j].key}
                : n \in 0..MaxFields}

\* The location names and the weather responses of the reply's specification
LongName(n) == [i \in 1..n |-> "x"]
PipedName(n) == <<"x", " ", "|", " ">> \o LongName(n)

ReplyNames == {BOSTON} \cup UNION {{JStr(LongName(n)), JStr(PipedName(n))} : n \in MinLong..MaxLong}

ReplyResponses ==
    {Fetched(<<>>), Fetched(<<Temp>>), Fetched(<<Conditions, Temp>>),
     Fetched(<<Humidity, Conditions, FeelsLike>>), Fetched(<<Moon, Humidity, Temp, Conditions>>),
     Fetched(<<Item("weather_code", TORNADO, Missing), Temp>>)}

-----------------------------------------------------------------------------
(* The commands' specification: the bot dispatches a command, its handler runs *)

Idle == [st |-> "idle"]

Configs == [climacell_api_key : KeyValues, google_api_key : KeyValues]

\* The upstream answers a weather command may meet
Upstream ==
    {<<[ok |-> FALSE, zone |-> "NewYork"], NotFetched>>}
    \cup {<<[ok |-> TRUE, zone |-> "NewYork"], wx>> : wx \in WxResponses}

NoAnswer == <<[ok |-> FALSE, zone |-> "NewYork"], NotFetched>>

Trigger(fn, nick, arg, geo, up) ==
    [fn |-> fn, nick |-> nick, arg |-> arg, geo |-> geo, tz |-> up[1], wx |-> up[2]]

\* A command with its argument and the answers its requests will get; the
\* geocoder is asked only when there is an argument
Triggers ==
    {Trigger("weather", n, None, NotReached, up) : n \in Nicks, up \in Upstream}
    \cup {Trigger("weather", n, a, g, up) :
              n \in Nicks, a \in Args \ {None}, g \in GeoResponses, up \in Upstream}
    \cup {Trigger("setlocation", n, None, NotReached, NoAnswer) : n \in Nicks}
    \cup {Trigger("setlocation", n, a, g, NoAnswer) :
              n \in Nicks, a \in Args \ {None}, g \in GeoResponses}
    \cup {Trigger("forecast", n, a, NotReached, NoAnswer) : n \in Nicks, a \in Args}

Init ==
    /\ cfg \in Configs
    /\ db = [n \in Nicks |-> [latitude |-> None, longitude |-> None, location |-> None]]
    /\ http = <<>>
    /\ said = <<>>
    /\ call = [fn |-> "none"]
    /\ ret = Idle

\* A command arrives: nothing of it has happened yet
Dispatch ==
    /\ ret # Pending
    /\ \E t \in Triggers : call' = t
    /\ ret' = Pending
    /\ http' = <<>>
    /\ said' = <<>>
    /\ UNCHANGED <<cfg, db>>

RunWeather ==
    /\ ret = Pending
    /\ call.fn = "weather"
    /\ \E did \in {weather(cfg, db, call)} :
            http' = did.http /\ said' = did.said /\ ret' = did.ret
    /\ UNCHANGED <<cfg, db, call>>

RunSetLocation ==
    /\ ret = Pending
    /\ call.fn = "setlocation"
    /\ \E done \in {set_location(cfg, db, call)} :
            /\ http' = done.did.http
            /\ said' = done.did.said
            /\ ret' = done.did.ret
            /\ db' = done.store
    /\ UNCHANGED <<cfg, call>>

\* forecast(bot, trigger): pass
RunForecast ==
    /\ ret = Pending
    /\ call.fn = "forecast"
    /\ ret' = Returned("None")
    /\ UNCHANGED <<cfg, db, http, said, call>>

Next == Dispatch \/ RunWeather \/ RunSetLocation \/ RunForecast

Spec == Init /\ [][Next]_vars

-----------------------------------------------------------------------------
(* The reply's specification: one weather command on a long location name *)

InitReply ==
    /\ cfg = [climacell_api_key |-> KEY, google_api_key |-> KEY]
    /\ db = [n \in Nicks |-> [latitude |-> None, longitude |-> None, location |-> None]]
    /\ http = <<>>
    /\ said = <<>>
    /\ call \in [fn : {"weather"}, nick : {"alice"},
                 arg : {JStr(<<"B", "o", "s", "t", "o", "n">>)},
                 geo : {Found(<<Place(name, JFloat(423), JFloat(0 - 711))>>) : name \in ReplyNames},
                 tz : {[ok |-> TRUE, zone |-> "NewYork"]}, wx : ReplyResponses]
    /\ ret = Pending

SpecReply == InitReply /\ [][RunWeather]_vars

-----------------------------------------------------------------------------
(* The specifications of the pure functions: the input is drawn, the function applied *)

NoConfig == [climacell_api_key |-> None, google_api_key |-> None]

InitCall(calls) ==
    /\ cfg = NoConfig
    /\ db = [n \in Nicks |-> [latitude |-> None, longitude |-> None, location |-> None]]
    /\ http = <<>>
    /\ said = <<>>
    /\ call \in calls
    /\ ret = Pending

Apply(fn, result) ==
    /\ ret = Pending
    /\ call.fn = fn
    /\ ret' = result
    /\ UNCHANGED <<cfg, db, http, said, call>>

\* The zone matters to the times only: a response without one is given one zone
ZonesFor(data) ==
    IF \E i \in 1..Len(data) : data[i].key \in {"sunrise", "sunset"} THEN DOMAIN Zones
    ELSE {"NewYork"}

InitFormat ==
    InitCall(UNION {[fn : {"get_weather"}, data : {d}, tz : ZonesFor(d)] : d \in FormatData})
ApplyGetWeather ==
    Apply("get_weather", get_weather([location |-> BOSTON.s, tz |-> call.tz], call.data))
SpecFormat == InitFormat /\ [][ApplyGetWeather]_vars

InitWind == InitCall([fn : {"get_wind"}, bearing : 0..MaxBearing])
ApplyGetWind == Apply("get_wind", Returned(get_wind(call.bearing)))
SpecWind == InitWind /\ [][ApplyGetWind]_vars

InitColor == InitCall([fn : {"_get_temp_color"}, f : (0 - BelowZero)..MaxTemp])
ApplyGetTempColor == Apply("_get_temp_color", Returned(_get_temp_color(call.f, 10)))
SpecColor == InitColor /\ [][ApplyGetTempColor]_vars

-----------------------------------------------------------------------------
(* Properties of get_wind, under SpecWind *)

NORTH == <<"<down>", " ", "N">>
NORTH_EAST == <<"<down-left>", " ", "N", "E">>
NORTH_WEST == <<"<down-right>", " ", "N", "W">>

WindReturned == call.fn = "get_wind" /\ ret.st = "returned"

\* C7, as stated: get_wind returns the N label for bearing 0, the NE label for
\* bearing 45, and the N label for bearing exactly 337.5.
C7_Stated ==
    WindReturned =>
        /\ call.bearing = 0 => ret.val = NORTH
        /\ call.bearing = 450 => ret.val = NORTH_EAST
        /\ call.bearing = 3375 => ret.val = NORTH

\* C7, amended: get_wind returns the N label for bearing 0 and the NE label for
\* bearing 45; bearing exactly 337.5 is the inclusive upper bound of NW's sector
\* and gets the NW label.  N's wraparound sector is every bearing above 337.5
\* together with every bearing up to 22.5 inclusive.
C7_Sectors ==
    WindReturned =>
        /\ call.bearing = 0 => ret.val = NORTH
        /\ call.bearing = 450 => ret.val = NORTH_EAST
        /\ call.bearing = 3375 => ret.val = NORTH_WEST
        /\ (call.bearing <= 225 \/ call.bearing > 3375) <=> ret.val = NORTH
        /\ (call.bearing > 2925 /\ call.bearing <= 3375) <=> ret.val = NORTH_WEST

\* get_wind has answered for bearing 337.5
C7_At3375 == WindReturned /\ call.bearing = 3375 /\ ret.val = NORTH_WEST

-----------------------------------------------------------------------------
(* Properties of _get_temp_color, under SpecColor *)

ColorReturned == call.fn = "_get_temp_color" /\ ret.st = "returned"

\* The colour of each band of the scale, by the band's lower and upper
\* threshold in tenths of a degree (the first band has no lower threshold, the
\* last no upper one)
Bands ==
    <<[from |-> 0 - BelowZero - 1, to |-> 100, fg |-> "LIGHT_BLUE"],
      [from |-> 100, to |-> 320, fg |-> "TEAL"],
      [from |-> 320, to |-> 500, fg |-> "BLUE"],
      [from |-> 500, to |-> 600, fg |-> "LIGHT_GREEN"],
      [from |-> 600, to |-> 700, fg |-> "GREEN"],
      [from |-> 700, to |-> 800, fg |-> "YELLOW"],
      [from |-> 800, to |-> 900, fg |-> "ORANGE"],
      [from |-> 900, to |-> MaxTemp + 1, fg |-> "RED"]>>

\* C8, as stated: the thresholds are compared with a strict '<'; exactly 10
\* gets the colour of the band below 32, and exactly 32 gets the colour of the
\* band below 50, which is TEAL.
C8_Stated ==
    ColorReturned =>
        /\ call.f = 100 => ret.val = Bands[2].fg
        /\ call.f = 320 => ret.val = Bands[3].fg /\ ret.val = "TEAL"

\* C8, amended: the thresholds 10, 32, 50, 60, 70, 80, 90 are compared with a
\* strict '<' (eight bands, eight distinct colours): a value at a threshold
\* gets the colour of the band above it.  Exactly 10 gets the colour of the
\* band below 32, which is TEAL, and exactly 32 gets the colour of the band
\* below 50, which is BLUE.
C8_Bands ==
    ColorReturned =>
        /\ \A b \in 1..Len(Bands) :
              (Bands[b].from <= call.f /\ call.f < Bands[b].to) <=> ret.val = Bands[b].fg
        /\ \A a, b \in 1..Len(Bands) : a # b => colors[Bands[a].fg] # colors[Bands[b].fg]
        /\ call.f = 100 => ret.val = "TEAL"
        /\ call.f = 320 => ret.val = "BLUE"

\* _get_temp_color has answered for exactly 32 degrees
C8_At32 == ColorReturned /\ call.f = 320 /\ ret.val = "BLUE"

-----------------------------------------------------------------------------
(* Properties of the formatter, under SpecFormat *)

FormatDone == call.fn = "get_weather" /\ ret # Pending
FormatReturned == call.fn = "get_weather" /\ ret.st = "returned"

\* The item of the response with this key
ItemOf(key) == call.data[CHOOSE i \in 1..Len(call.data) : call.data[i].key = key]

\* The p-th " | "-separated piece of the fields' text
PieceOf(p) == split(ret.val.string, SEP)[p]

StartsWith(s, t) == Len(s) >= Len(t) /\ SubSeq(s, 1, Len(t)) = t
EndsWith(s, t) == Len(s) >= Len(t) /\ SubSeq(s, Len(s) - Len(t) + 1, Len(s)) = t
Contains(s, t) == \E i \in 1..Len(s) : MatchAt(s, i, t)

\* The rendered fields are the pieces of the text, each under its label
ShownAsRendered ==
    /\ ret.val.shown = <<>> => ret.val.string = <<>>
    /\ ret.val.shown # <<>> => Len(split(ret.val.string, SEP)) = Len(ret.val.shown)
    /\ \A p \in 1..Len(ret.val.shown) :
          StartsWith(PieceOf(p), GetOr(MAPPED_FIELDS, ret.val.shown[p], <<>>) \o <<" ">>)

\* C3: the fields get_weather renders are in ascending order of their rank in
\* the rank table (temp 1, feels_like 2, weather_code 3, precipitation_type 4,
\* precipitation 5, ...) whatever the order of the response's keys; a field
\* absent from the table comes after all ranked fields, and two unranked fields
\* keep the order in which the response had them.
C3_RankOrder ==
    FormatReturned =>
        LET shown == ret.val.shown
            ranked(k) == k \in DOMAIN SORTED_FIELDS
            at(k) == CHOOSE i \in 1..Len(call.data) : call.data[i].key = k
        IN  /\ ShownAsRendered
            /\ <<SORTED_FIELDS["temp"], SORTED_FIELDS["feels_like"],
                 SORTED_FIELDS["weather_code"], SORTED_FIELDS["precipitation_type"],
                 SORTED_FIELDS["precipitation"]>> = <<1, 2, 3, 4, 5>>
            /\ \A i, j \in 1..Len(shown) :
                  i < j =>
                      IF ranked(shown[i]) /\ ranked(shown[j])
                      THEN SORTED_FIELDS[shown[i]] < SORTED_FIELDS[shown[j]]
                      ELSE IF ranked(shown[j]) THEN FALSE
                      ELSE IF ranked(shown[i]) THEN TRUE
                      ELSE at(shown[i]) < at(shown[j])

\* A response with an unranked field first: the ranked field is rendered
\* before it, the two unranked ones in the response's order
C3_UnrankedLast ==
    /\ FormatReturned
    /\ Len(call.data) = 3
    /\ <<call.data[1].key, call.data[2].key, call.data[3].key>> = <<"o3", "temp", "pm25">>
    /\ ret.val.shown = <<"temp", "o3", "pm25">>

\* The value is present, not null and not the literal "none"
Present(values) == values.value \notin {Missing, None, NONE}

\* C4, as stated: a field appears in the report if and only if its name is not
\* lat, lon or observation_time and its value is present, not null and not
\* "none"; a numeric value of 0 is rendered.
C4_Stated ==
    FormatReturned =>
        \A i \in 1..Len(call.data) :
            (\E p \in 1..Len(ret.val.shown) : ret.val.shown[p] = call.data[i].key)
                <=> (/\ call.data[i].key \notin {"lat", "lon", "observation_time"}
                     /\ Present(call.data[i].values))

\* A value that gets past the skip of line 327 and is looked up in the table
Miss(item, key, table) ==
    /\ item.key = key
    /\ item.values.value.t = "str"
    /\ item.values.value.s # <<>>
    /\ item.values.value # NONE
    /\ item.values.value.s \notin DOMAIN table

Hit(item, key, table) ==
    /\ item.key = key
    /\ item.values.value.t = "str"
    /\ item.values.value.s \in DOMAIN table

\* The piece of a rendered field is its label, a space and this text
RenderedAs(key, text) ==
    \A p \in 1..Len(ret.val.shown) :
        ret.val.shown[p] = key =>
            PieceOf(p) = GetOr(MAPPED_FIELDS, key, <<>>) \o <<" ">> \o text

KnownEmitted ==
    FormatReturned =>
        \A i \in 1..Len(call.data) :
            /\ Hit(call.data[i], "weather_code", WEATHER_CODE_DESCRIPTIONS) =>
                  RenderedAs("weather_code",
                             WEATHER_CODE_DESCRIPTIONS[call.data[i].values.value.s])
            /\ Hit(call.data[i], "moon_phase", moon_phases) =>
                  RenderedAs("moon_phase", moon_phases[call.data[i].values.value.s])

REPLACED_KEYS == {"weather_code", "wind_direction", "sunrise", "sunset"}

\* The unit tag of the p-th rendered field is text other than "F" and "C"
OtherUnit(p) ==
    /\ ItemOf(ret.val.shown[p]).values.units.t = "str"
    /\ ItemOf(ret.val.shown[p]).values.units.s # <<>>
    /\ ItemOf(ret.val.shown[p]).values.units \notin {F, C}

NoPlaceholder == ~Contains(ret.val.base_string, UNITS_PLACEHOLDER)

\* C10, as stated: a field's unit tag is never appended after its value,
\* whatever tag the value carries; the only unit text is the one folded into
\* the temperature form, and no "$units" placeholder is left.
C10_Stated ==
    FormatReturned =>
        /\ NoPlaceholder
        /\ \A p \in 1..Len(ret.val.shown) :
              /\ OtherUnit(p) =>
                    ~EndsWith(PieceOf(p), ItemOf(ret.val.shown[p]).values.units.s)
              /\ ItemOf(ret.val.shown[p]).values.units = None =>
                    ~EndsWith(PieceOf(p), <<"N", "o", "n", "e">>)

\* C10, amended: the unit tag is appended right after the formatted value of
\* every rendered field whose value map still has its units key: a tag other
\* than "F" and "C" (a percent sign, a pressure or speed unit) follows the
\* value as it is, and a null tag is written as None.  No tag follows the
\* value of a temperature in "F" or "C", which is folded into the form
\* "<F>[deg]F/<C>[deg]C" or "<C>[deg]C/<F>[deg]F", of weather_code,
\* wind_direction, sunrise and sunset, whose value map is replaced, or of a
\* field without a units key; the placeholder such a field leaves is removed
\* from the final text.
C10_UnitsAppended ==
    FormatReturned =>
        /\ NoPlaceholder
        /\ \A p \in 1..Len(ret.val.shown) :
              LET key == ret.val.shown[p]
                  units == ItemOf(key).values.units
                  label == GetOr(MAPPED_FIELDS, key, <<>>) \o <<" ">>
              IN  /\ OtherUnit(p) /\ key \notin REPLACED_KEYS =>
                        /\ EndsWith(PieceOf(p), units.s)
                        /\ Len(PieceOf(p)) > Len(label) + Len(units.s)
                  /\ units = None /\ key \notin REPLACED_KEYS =>
                        EndsWith(PieceOf(p), <<"N", "o", "n", "e">>)
                  /\ OtherUnit(p) /\ key \in REPLACED_KEYS =>
                        ~EndsWith(PieceOf(p), units.s)
                  /\ units = F =>
                        /\ Contains(PieceOf(p), <<DEGREE, "F", "/", CONTROL_COLOR>>)
                        /\ EndsWith(PieceOf(p), <<CONTROL_COLOR, DEGREE, "C">>)
                  /\ units = C =>
                        /\ Contains(PieceOf(p), <<DEGREE, "C", "/", CONTROL_COLOR>>)
                        /\ EndsWith(PieceOf(p), <<CONTROL_COLOR, DEGREE, "F">>)
                  /\ ItemOf(key).values = [value |-> JFloat(555), units |-> PERCENT] =>
                        PieceOf(p) = label \o <<"5", "6", "%">>
                  /\ ItemOf(key).values = [value |-> JInt(60), units |-> Missing] =>
                        PieceOf(p) = label \o <<"6", "0">>

\* A report with a humidity of 55.5 percent: the percent sign follows the value
C10_PercentShown ==
    /\ FormatReturned
    /\ \E p \in 1..Len(ret.val.shown) :
          /\ ret.val.shown[p] = "humidity"
          /\ ItemOf("humidity").values.units = PERCENT
          /\ EndsWith(PieceOf(p), <<"5", "6", "%">>)

-----------------------------------------------------------------------------
(* Properties of the reply, under SpecReply *)

Replied == call.fn = "weather" /\ ret.st = "returned"

\* The reply as get_weather returned it
WholeReply ==
    get_weather([location |-> get_latlon(call.geo).loc.s, tz |-> call.tz.zone],
                call.wx.data).val.base_string

\* The texts of the messages said, in the order they were said
SaidTexts == [m \in 1..Len(said) |-> said[m].text]

AllSaid == \A m \in 1..Len(said) : said[m].how = "say"

\* The length of the text's repr(): the two quotes, a bold or colour control
\* character as four characters, a zero-width space as six
EscapedLength(text) ==
    2 + Len(text)
      + 3 * Cardinality({i \in 1..Len(text) : text[i] \in {CONTROL_BOLD, CONTROL_COLOR}})
      + 5 * Cardinality({i \in 1..Len(text) : text[i] = ZWSP})

\* C5, as stated: after a successful fetch the command emits exactly two say
\* calls if the rendered length of the reply (location, fields, attribution)
\* exceeds 475 characters, and exactly one say call with the whole reply if
\* that length is 475 or less.
C5_Stated ==
    Replied =>
        \E reply \in {WholeReply} :
            /\ AllSaid
            /\ Len(reply) > 475 => Len(said) = 2
            /\ Len(reply) <= 475 => SaidTexts = <<reply>>

\* C5, amended: after a successful fetch whose response is formatted without
\* error, the command emits exactly two say calls if the length of the
\* reply's repr() exceeds 475, and exactly one say call with the whole reply
\* if that length is 475 or less.  repr() counts the two quotes and writes
\* every bold or colour control character as four characters and a zero-width
\* space as six, so every reply whose rendered length exceeds 475 is said in
\* two calls, and so are shorter ones: a reply without fields from a rendered
\* length of 468 on.
C5_ReprLength ==
    Replied =>
        \E reply \in {WholeReply} :
            \E length \in {EscapedLength(reply)} :
                /\ AllSaid
                /\ length > 475 => Len(said) = 2
                /\ length <= 475 => SaidTexts = <<reply>>
                /\ Len(reply) > 475 => Len(said) = 2
                /\ call.wx.data = <<>> /\ Len(reply) >= 468 => Len(said) = 2

\* A reply of at most 475 rendered characters said in two calls
C5_ShortReplySplit == Replied /\ Len(said) = 2 /\ Len(WholeReply) <= 475

\* The reply was said in two messages
SplitReply == Replied /\ Len(said) = 2

\* The fields the reply renders: those line 325-328 do not skip
RenderedCount ==
    Cardinality({i \in 1..Len(call.wx.data) :
                    /\ call.wx.data[i].key \notin SKIPPED_KEYS
                    /\ HasValue(call.wx.data[i].values)})

\* The separators inside the bracketed location: its pieces but the last hold
\* no field
SeparatorsInLocation == Len(split(get_latlon(call.geo).loc.s, SEP)) - 1

\* The weather fields among these pieces of the first message: the location's
\* last piece holds the first field, if there is one
FieldsAmong(pieces) ==
    IF RenderedCount = 0 \/ Len(pieces) <= SeparatorsInLocation THEN 0
    ELSE Len(pieces) - SeparatorsInLocation

\* Every piece of the reply is in exactly one of the two messages, as it was
\* and in the reply's order, and neither message is empty
PiecesKept(reply, first, second) ==
    /\ split(first, SEP) \o split(second, SEP) = split(reply, SEP)
    /\ first # <<>>
    /\ second # <<>>

\* C6, as stated: the split point is the midpoint of the rendered field count
\* by integer division: with n rendered fields the first message holds
\* floor(n/2) of them, the smaller or equal share; every " | "-separated
\* substring is verbatim in exactly one message, in order; both are non-empty.
C6_Stated ==
    SplitReply =>
        /\ FieldsAmong(split(said[1].text, SEP)) = RenderedCount \div 2
        /\ PiecesKept(WholeReply, said[1].text, said[2].text)

\* C6, amended: the split point is the midpoint, by integer division, of the
\* count of " | "-separated pieces of the whole reply: the bracketed location
\* together with the first field, every further field, and the attribution.
\* With p pieces the first message holds the first floor(p/2) of them, the
\* smaller or equal share of the pieces, and the second message the rest.  For
\* n >= 1 rendered fields, when neither the location nor a value contains the
\* separator, that is floor((n+1)/2) fields in the first message: the larger
\* share when n is odd.
\* Every piece is verbatim in exactly one message, in the original order, and
\* both messages are non-empty.
C6_MidpointOfPieces ==
    SplitReply =>
        \E reply \in {WholeReply} :
            \E first \in {split(said[1].text, SEP)} :
                /\ Len(first) = Len(split(reply, SEP)) \div 2
                /\ RenderedCount >= 1 /\ SeparatorsInLocation = 0 =>
                      /\ Len(split(reply, SEP)) = RenderedCount + 1
                      /\ FieldsAmong(first) = (RenderedCount + 1) \div 2
                /\ PiecesKept(reply, said[1].text, said[2].text)

\* A split reply of three fields: two of them are in the first message
C6_OddSplit ==
    /\ SplitReply
    /\ RenderedCount = 3
    /\ SeparatorsInLocation = 0
    /\ FieldsAmong(split(said[1].text, SEP)) = 2

-----------------------------------------------------------------------------
(* Properties of the commands, under Spec *)

KeysSet == Truthy(cfg.climacell_api_key) /\ Truthy(cfg.google_api_key)

\* The geocoder returned a result: an address with its two coordinates
GeocodingReturned ==
    /\ call.geo.ok
    /\ call.geo.results # <<>>
    /\ call.geo.results[1].formatted_address # Missing
    /\ call.geo.results[1].lat # Missing
    /\ call.geo.results[1].lng # Missing

\* The geocoding failed or returned no result
GeocodingFailed == ~call.geo.ok \/ call.geo.results = <<>>

Asked(requests, api) == \E i \in 1..Len(requests) : requests[i].api = api

\* The step in which this command runs from its start to its end
Runs(fn) == call.fn = fn /\ ret = Pending /\ ret' # Pending

\* C1, as stated: each abort path of the weather command sends exactly one
\* message and stops: (a) an unset key and (b) no argument and no stored
\* location issue no HTTP call, (c) a failed or empty geocoding issues the
\* geocoding call only; none of them issues the timezone lookup or the weather
\* fetch or writes the store.  For every geocoding result that was returned,
\* latitude 0 included, the command goes on to the timezone lookup (and, when
\* that answers, to the weather fetch).
C1_Stated ==
    [][Runs("weather") =>
          /\ db' = db
          /\ ~KeysSet \/ (call.arg = None /\ ~Truthy(db[call.nick].location)) =>
                Len(said') = 1 /\ http' = <<>>
          /\ KeysSet /\ call.arg # None /\ GeocodingFailed =>
                /\ Len(said') = 1
                /\ Len(http') = 1
                /\ http'[1].api = "geocode"
          /\ KeysSet /\ call.arg # None /\ GeocodingReturned =>
                /\ Asked(http', "timezone")
                /\ call.tz.ok => Asked(http', "weather")
      ]_vars

\* C2, as stated: setlocation changes the store only when geocoding returned a
\* result: then the calling nick's latitude, longitude and location are all
\* three overwritten with the first result, whatever its coordinates, and no
\* other nick's keys change.  With no argument it replies with an instruction,
\* returns NOLIMIT, issues no HTTP call and writes nothing; with a missing
\* Google key or a failed or empty geocoding it writes nothing.
C2_Stated ==
    [][Runs("setlocation") =>
          /\ \A nick \in Nicks \ {call.nick} : db'[nick] = db[nick]
          /\ Truthy(cfg.google_api_key) /\ call.arg # None /\ GeocodingReturned =>
                db'[call.nick] = [latitude |-> call.geo.results[1].lat,
                                  longitude |-> call.geo.results[1].lng,
                                  location |-> call.geo.results[1].formatted_address]
          /\ Truthy(cfg.google_api_key) /\ call.arg = None =>
                /\ said' = <<Sent("reply", "Give me a location", <<>>)>>
                /\ ret' = Returned("NOLIMIT")
                /\ http' = <<>>
                /\ db' = db
          /\ ~Truthy(cfg.google_api_key) \/ call.arg = None \/ GeocodingFailed => db' = db
      ]_vars

=============================================================================
